---------------------------- MODULE Spec2Model ----------------------------
(***************************************************************************)
(* Model of the Lean repair agent (package lean_agent).                    *)
(*                                                                         *)
(*   Spec     one session: either AgentRunner.loop (runner.py, started by  *)
(*            main.py) or the LangGraph state machine (langgraph_app.py)   *)
(*   FixSpec  propose_deterministic_fixes and apply_edit (editing.py)      *)
(*            called on their own                                          *)
(*                                                                         *)
(* Texts (file contents, tool output, oracle responses) are sequences of   *)
(* tokens; the concatenation of the tokens is the Python string.  The      *)
(* tokens are chosen so that every substring the code searches for can     *)
(* only occur aligned to token boundaries.                                 *)
(*                                                                         *)
(* The toolchain (lake build, lean --make) answers each call with any of   *)
(* its outcomes: the code keeps no record of earlier answers.  Files hold  *)
(* their bytes; read_text turns the line ends into newlines.               *)
(***************************************************************************)
EXTENDS Integers, Sequences, FiniteSets, TLC

VARIABLES
    \* ---- environment: working file and toolchain ----
    file,           \* content of the target file on disk
    stale,          \* kind of the last write if no os.utime followed it
    lastExit,       \* history: content -> exit code of its last lake build
    tools,          \* which toolchain binaries are on the PATH
    \* ---- AgentRunner fields ----
    max_iters, beam, updates, did_doc, client, snapshots, lastSnap,
    \* ---- locals of AgentRunner.loop and its position ----
    pc, it, src, rc, err, errs, edits, k, best_text, best_errs, pre, doc_code,
    ret,            \* the value loop() returned, once pc is done
    \* ---- history of the run of AgentRunner.loop ----
    updates0,       \* the extension budget after construction
    src0,           \* the file's content when loop() started
    preFile,        \* the file's content when the documentation phase began
    nBuilds,        \* calls of run_lake_build
    nExtend,        \* calls of _call_llm_innovate
    nDoc,           \* calls of _call_llm_document
    nRepair,        \* calls of _call_llm_repair
    oracleRet,      \* what the last oracle call returned
    allBuildsOk,    \* every run_lake_build so far exited 0
    allContent,     \* every oracle call so far returned content
    noMarker,       \* no text returned by an oracle so far contains sorry
    preErrs,        \* error count before the candidates of this iteration
    lastDet,        \* [pre, post] error counts of the last accepted edit
    docOutcome,     \* outcome of the documentation phase
    \* ---- graph variant: AgentState and current node ----
    gnode, s, g_src, g_edits, g_k, api_key, patchFailed, g_builds, g_lastDet,
    \* ---- fix engine exercised on its own ----
    f_pc, f_source, f_errors, f_edits, f_applied,
    \* ---- history of the cases taken by loop ----
    cleanBuilt,     \* some iteration's build was clean (Case A was taken)
    innovWrote,     \* an extension was written to the file in this run
    tried,          \* candidates tried in this iteration: [cand, errs] in order
    lastPick,       \* last beam result: [text, tried, base, edits]
    diagIt,         \* iteration in which the fix engine was last asked
    preTrial,       \* the text the fix engine was last asked about
    \* ---- run directories: sessions constructed on one project ----
    clock,          \* wall clock, in ticks
    run_dir,        \* session -> name of its run directory (NoDir before __init__)
    agent_runs,     \* .agent_runs: directory name -> (tag -> snapshot content)
    d_step,         \* session -> number of snapshots it has saved
    writers,        \* history: <<directory, tag>> -> sessions that wrote the file
    d_open,         \* session -> the text it is writing to an open snapshot file
    d_tag,          \* session -> the tag of the snapshot it began last
    \* ---- the diagnostics collector exercised on its own ----
    dg_pc,          \* "idle", "called" or "returned"
    dg_in,          \* what run_lean_make reported: [rc, out, err]
    dg_out          \* the list diagnostics returned

envVars    == <<file, stale, lastExit>>
cfgVars    == <<max_iters, beam, client, updates0, tools>>
loopVars   == <<updates, did_doc, snapshots, lastSnap, pc, it, src, rc, err,
                errs, edits, k,
                best_text, best_errs, pre, doc_code, ret>>
histVars   == <<src0, preFile, nBuilds, nExtend, nDoc, nRepair, oracleRet,
                allBuildsOk,
                allContent, noMarker, preErrs, lastDet, docOutcome>>
caseVars   == <<cleanBuilt, innovWrote, tried, lastPick, diagIt, preTrial>>
runnerVars == <<cfgVars, loopVars, histVars, caseVars>>
graphVars  == <<gnode, s, g_src, g_edits, g_k, api_key, patchFailed, g_builds,
                g_lastDet>>
fixVars    == <<f_pc, f_source, f_errors, f_edits, f_applied>>
dirVars    == <<clock, run_dir, agent_runs, d_step, writers, d_open,
                d_tag>>
diagVars   == <<dg_pc, dg_in, dg_out>>
vars       == <<envVars, runnerVars, graphVars, fixVars, dirVars, diagVars>>

---------------------------------------------------------------------------
(* Bounds of the model *)

MaxItersArg   == 2    \* max_iters arguments are drawn from 0..MaxItersArg
MaxBeamArg    == 2    \* beam arguments are drawn from 0..MaxBeamArg
MaxUpdatesArg == 1    \* updates arguments are drawn from 0..MaxUpdatesArg
MaxSrcLen     == 3    \* FixSpec: source texts of up to MaxSrcLen tokens
MaxErrors     == 2    \* FixSpec: error lists of up to MaxErrors texts

---------------------------------------------------------------------------
(* Texts *)

NL     == "\n"
CR     == "\r"
SP     == " "
FENCE  == "<fence>"   \* the Markdown code fence: three backquotes
LOGMOD == "Mathlib.Analysis.SpecialFunctions.Log.Basic"
SORRY  == "sorry"

\* Optional[str]
None    == [none |-> TRUE]
Some(t) == [none |-> FALSE, text |-> t]
\* Python truthiness of an Optional[str]
Truthy(o) == o # None /\ o.text # <<>>

\* str.__contains__
Contains(needle, hay) ==
    \E i \in 0..(Len(hay) - Len(needle)) :
        SubSeq(hay, i + 1, i + Len(needle)) = needle

\* str.startswith / str.endswith
StartsWith(t, p) == Len(p) <= Len(t) /\ SubSeq(t, 1, Len(p)) = p
EndsWith(t, p)   == Len(p) <= Len(t) /\ SubSeq(t, Len(t) - Len(p) + 1, Len(t)) = p

IsSpace(c) == c \in {SP, NL, CR}

RECURSIVE lstrip(_)
lstrip(t) == IF t # <<>> /\ IsSpace(Head(t)) THEN lstrip(Tail(t)) ELSE t

RECURSIVE rstrip(_)
rstrip(t) == IF t # <<>> /\ IsSpace(t[Len(t)])
             THEN rstrip(SubSeq(t, 1, Len(t) - 1)) ELSE t

\* str.strip
strip(t) == rstrip(lstrip(t))

\* Path.read_text: the text mode of open() turns every "\r\n" and every
\* lone "\r" of the file into "\n" (universal newlines)
RECURSIVE read_text(_)
read_text(t) ==
    IF t = <<>> THEN <<>>
    ELSE IF Head(t) = CR
         THEN IF Len(t) >= 2 /\ t[2] = NL
              THEN <<NL>> \o read_text(Tail(Tail(t)))
              ELSE <<NL>> \o read_text(Tail(t))
         ELSE <<Head(t)>> \o read_text(Tail(t))

\* " ".join(list of texts)
RECURSIVE Join(_)
Join(ts) == IF ts = <<>> THEN <<>>
            ELSE IF Len(ts) = 1 THEN ts[1]
            ELSE ts[1] \o <<SP>> \o Join(Tail(ts))

\* t.split("\n", 1): the part after the first newline, "" when there is none
AfterFirstNL(t) ==
    IF \E i \in 1..Len(t) : t[i] = NL
    THEN LET i == CHOOSE j \in 1..Len(t) :
                      t[j] = NL /\ \A h \in 1..(j - 1) : t[h] # NL
         IN  SubSeq(t, i + 1, Len(t))
    ELSE <<>>

\* t.rsplit(FENCE, 1)[0]: the part before the last fence
BeforeLastFence(t) ==
    IF \E i \in 1..Len(t) : t[i] = FENCE
    THEN LET i == CHOOSE j \in 1..Len(t) :
                      t[j] = FENCE /\ \A h \in (j + 1)..Len(t) : t[h] # FENCE
         IN  SubSeq(t, 1, i - 1)
    ELSE t

\* runner.py _strip_fences
_strip_fences(raw) ==
    LET t0 == strip(raw)
        t1 == AfterFirstNL(t0)
        t2 == IF EndsWith(rstrip(t1), <<FENCE>>) THEN BeforeLastFence(t1) ELSE t1
    IN  IF StartsWith(t0, <<FENCE>>) THEN strip(t2) ELSE strip(t0)

---------------------------------------------------------------------------
(* editing.py *)

\* The signature table of propose_deterministic_fixes
SigLog       == <<"unknown identifier", SP, "'Real.log'">>
SigClassical == <<"unknown identifier", SP, "'Classical'">>
RemedyLog       == <<LOGMOD>>
RemedyClassical == <<"open", SP, "Classical">>
InsLog       == <<"import", SP, LOGMOD, NL>>
InsClassical == <<"open", SP, "Classical", NL>>

\* dataclass Edit (the file field is the same for every edit)
Edit(start, end, replacement, note) ==
    [start |-> start, end |-> end, replacement |-> replacement, note |-> note]

\* text[:edit.start] + edit.replacement + text[edit.end:]
apply_edit(text, edit) ==
    SubSeq(text, 1, edit.start) \o edit.replacement
        \o SubSeq(text, edit.end + 1, Len(text))

\* The first rule of propose_deterministic_fixes
LogRule_NoGuard(source, err_blob) ==
    IF Contains(SigLog, err_blob)
    THEN <<Edit(0, 0, InsLog \o source, "import log")>>
    ELSE <<>>

LogRule(source, err_blob) ==
    IF Contains(SigLog, err_blob) /\ ~Contains(RemedyLog, source)
    THEN <<Edit(0, 0, InsLog \o source, "import log")>>
    ELSE <<>>

\* The second rule of propose_deterministic_fixes
ClassicalRule(source, err_blob) ==
    IF Contains(SigClassical, err_blob) /\ ~Contains(RemedyClassical, source)
    THEN <<Edit(0, 0, InsClassical \o source, "open Classical")>>
    ELSE <<>>

propose_deterministic_fixes(source, errors) ==
    LET err_blob == Join(errors)
    IN  LogRule(source, err_blob) \o ClassicalRule(source, err_blob)

\* The remedy text of the signature an edit belongs to
RemedyOf(note) == IF note = "import log" THEN RemedyLog ELSE RemedyClassical

Range(q) == {q[i] : i \in DOMAIN q}

---------------------------------------------------------------------------
(* lean_server.py *)

\* What the subprocess of run_lake_build can report: (returncode, stderr)
LakeOutcomes ==
    { [rc |-> 0, err |-> <<>>],
      [rc |-> 0, err |-> <<"warning">>],
      [rc |-> 1, err |-> <<"error">>],
      [rc |-> 1, err |-> <<>>] }

\* What the subprocess of run_lean_make can report: (returncode, stdout, stderr)
LeanOutcomes ==
    { [rc |-> 0, out |-> <<>>, err |-> <<>>],
      [rc |-> 0, out |-> <<>>, err |-> <<"warning">>],
      [rc |-> 1, out |-> <<>>, err |-> SigLog \o <<NL>>],
      [rc |-> 1, out |-> <<>>, err |-> SigLog \o <<NL>> \o SigClassical],
      [rc |-> 1, out |-> <<"error">>, err |-> <<>>] }

\* subprocess.run finds the lake binary (it raises FileNotFoundError if not)
LakePresent(tl) == tl = "all"

\* run_lean_make finds lake or, after FileNotFoundError, the lean binary
LeanRunnable(tl) == tl \in {"all", "no_lake"}

\* proc.returncode of run_lake_build
ExitCode(r) == [rc |-> r.rc]

\* The record of what the last build of each content reported
Remember(memo, content, r) ==
    [c \in DOMAIN memo \cup {content} |-> IF c = content THEN r ELSE memo[c]]

\* A Message whose severity is always "error"
Message_AlwaysError(severity, text) == [severity |-> "error", text |-> text]

\* dataclass Message (file_name, pos and end_pos carry no information)
Message(severity, text) == [severity |-> severity, text |-> text]

\* The lines of a text
RECURSIVE Lines(_)
Lines(t) ==
    IF t = <<>> THEN <<>>
    ELSE IF \E i \in 1..Len(t) : t[i] = NL
         THEN LET i == CHOOSE j \in 1..Len(t) :
                           t[j] = NL /\ \A h \in 1..(j - 1) : t[h] # NL
              IN  <<SubSeq(t, 1, i - 1)>> \o Lines(SubSeq(t, i + 1, Len(t)))
         ELSE <<t>>

\* A collector that reports one message per line of the error text
diagnostics_PerLine(r) ==
    IF r.rc = 0 /\ strip(r.err) = <<>> THEN <<>>
    ELSE LET text == IF strip(r.err) # <<>> THEN strip(r.err) ELSE strip(r.out)
             ls   == Lines(text)
         IN  [i \in 1..Len(ls) |->
                 Message(IF r.rc # 0 THEN "error" ELSE "warning", ls[i])]

\* LeanProject.diagnostics, applied to the result r of run_lean_make
diagnostics(r) ==
    IF r.rc = 0 /\ strip(r.err) = <<>> THEN <<>>
    ELSE << Message(IF r.rc # 0 THEN "error" ELSE "warning",
                    IF strip(r.err) # <<>> THEN strip(r.err) ELSE strip(r.out)) >>

IsError(m) == m.severity = "error"

\* [m.text for m in diags if m.severity == "error"]
ErrorTexts(diags) ==
    LET es == SelectSeq(diags, IsError) IN [i \in 1..Len(es) |-> es[i].text]

\* sum(1 for m in diags if m.severity == "error")
ErrorCount(diags) == Len(SelectSeq(diags, IsError))

---------------------------------------------------------------------------
(* runner.py: AgentRunner *)

Max(a, b) == IF a >= b THEN a ELSE b
Min(a, b) == IF a <= b THEN a ELSE b

\* best_errs = 10**9
BigErrs == 1000000000

\* The texts the target file can hold when the runner is constructed
InitTexts == { <<"x">>, <<"x", NL, SORRY>>, <<"x", CR, NL>> }

\* resp.choices[0].message.content or "": what the service can answer
RawResponses ==
    { <<>>,
      <<NL>>,
      <<FENCE, NL, FENCE>>,
      <<"y">>,
      <<FENCE, "lean", NL, "y", NL, FENCE, NL>>,
      <<"y", NL, SORRY>>,
      <<"y", CR, NL, "y">> }

\* code = _strip_fences((content or "").strip()); return code if code else None
LLMReturn(cl, content) ==
    IF ~cl THEN None
    ELSE LET code == _strip_fences(strip(content))
         IN  IF code # <<>> THEN Some(code) ELSE None

_call_llm_repair(cl, content)   == LLMReturn(cl, content)
_call_llm_innovate(cl, content) == LLMReturn(cl, content)
_call_llm_document(cl, content) == LLMReturn(cl, content)

\* Snapshot tags that leave the iteration number out
Tag_NoIter(i, suffix) == [iter |-> 0, suffix |-> suffix]

\* Snapshot tags: f"iter{it:03d}_{suffix}", and "iter000" for the first one
Tag(i, suffix) == [iter |-> i, suffix |-> suffix]

\* The value of lastSnap before any snapshot is saved
NoTag == [iter |-> -1, suffix |-> ""]

\* AgentRunner._save_snapshot: one file per tag, written over if it exists
_save_snapshot(snaps, tag, content) ==
    [t \in DOMAIN snaps \cup {tag} |-> IF t = tag THEN content ELSE snaps[t]]

\* AgentRunner._write_target: write the file, read it back, snapshot it
_write_target(content, tag) ==
    /\ file' = content
    /\ stale' = "none"
    /\ snapshots' = _save_snapshot(snapshots, tag, read_text(content))
    /\ lastSnap' = tag

\* Case A of loop: rc == 0 and "sorry" not in src
\* Case A taken whatever the exit code of the build
CleanBuild_IgnoreRc(code, text) == ~Contains(<<SORRY>>, text)

CleanBuild(code, text) == code = 0 /\ ~Contains(<<SORRY>>, text)

\* The test of the extension budget when it is always taken as spent
BudgetRemains_Never(u) == FALSE

\* if self.updates > 0
BudgetRemains(u) == u > 0

\* self.updates -= 1 with a decrement that is lost
Decrement_Lost(n) == n

\* self.updates -= 1
Decrement(n) == n - 1

\* A loop that runs one iteration too many
LoopExhausted_OffByOne(i, m) == i > m

\* for it in range(1, self.max_iters + 1): no iteration follows iteration i
LoopExhausted(i, m) == i >= m

\* self._write_target(pre, ...): the text written when the rebuild fails
RevertText(preText, docText) == preText

\* A documentation phase that goes on with the loop
AfterDocPhase_Continue == "continue"

\* The statement that ends the documentation phase: return True
AfterDocPhase == "return"

\* A repair step that goes on without new code
AfterRepair_Continue(new_code) == "continue"

\* Case C of loop: if not new_code: return False
AfterRepair(new_code) == IF ~Truthy(new_code) THEN "return" ELSE "continue"

\* edits[:self.beam]
BeamCount(es, b) == Min(b, Len(es))

\* return <value>
Return(v) == pc' = "done" /\ ret' = v

\* continue, or the end of the loop body: next iteration, or return False
Continue ==
    IF LoopExhausted(it, max_iters)
    THEN Return(FALSE) /\ it' = it
    ELSE pc' = "build" /\ it' = it + 1 /\ ret' = ret

\* The end of Case A when no innovation is left
DocPhaseExit ==
    IF AfterDocPhase = "return" THEN Return(TRUE) /\ it' = it ELSE Continue

\* self.project.run_lake_build(): r is what the subprocess reports
RunLakeBuild(r) ==
    /\ LakePresent(tools)
    /\ r \in LakeOutcomes
    /\ lastExit' = Remember(lastExit, file, ExitCode(r))
    /\ nBuilds' = nBuilds + 1
    /\ allBuildsOk' = (allBuildsOk /\ r.rc = 0)

\* self.project.run_lean_make(file): r is what the subprocess reports
RunLeanMake(r) ==
    /\ LeanRunnable(tools)
    /\ r \in LeanOutcomes

\* An oracle call returned o
OracleReturned(o) ==
    /\ oracleRet' = o
    /\ allContent' = (allContent /\ Truthy(o))
    /\ noMarker' = (noMarker /\ (Truthy(o) => ~Contains(<<SORRY>>, o.text)))

\* loop(): read the file and save the first snapshot
L_Start ==
    /\ pc = "start"
    /\ src' = read_text(file)
    /\ src0' = file
    /\ snapshots' =
          _save_snapshot(snapshots, Tag(0, ""), read_text(file))
    /\ lastSnap' = Tag(0, "")
    /\ it' = 1
    /\ pc' = "build"
    /\ UNCHANGED <<envVars, cfgVars, graphVars, fixVars, dirVars, diagVars>>
    /\ UNCHANGED <<updates, did_doc, rc, err, errs, edits, k, best_text,
                   best_errs, pre, preFile, doc_code, ret>>
    /\ UNCHANGED <<nBuilds, nExtend, nDoc, nRepair, oracleRet, allBuildsOk,
                   allContent, noMarker, preErrs, lastDet, docOutcome>>
    /\ UNCHANGED caseVars

\* The build at the top of an iteration and the choice of the case
L_Build ==
    /\ pc = "build"
    /\ \E r \in LakeOutcomes :
        /\ RunLakeBuild(r)
        /\ rc' = r.rc
        /\ err' = r.err
        /\ cleanBuilt' = (cleanBuilt \/ CleanBuild(r.rc, src))
        /\ IF CleanBuild(r.rc, src)
           THEN IF BudgetRemains(updates)
                THEN /\ updates' = Decrement(updates)
                     /\ pc' = "innovate"
                     /\ UNCHANGED <<pre, preFile, ret>>
                ELSE IF ~did_doc
                     THEN /\ pre' = read_text(file)
                          /\ preFile' = file
                          /\ pc' = "document"
                          /\ UNCHANGED <<updates, ret>>
                     ELSE /\ Return(TRUE)
                          /\ UNCHANGED <<updates, pre, preFile>>
           ELSE /\ pc' = "diagnose"
                /\ UNCHANGED <<updates, pre, preFile, ret>>
    /\ UNCHANGED <<file, stale, cfgVars, graphVars, fixVars,
                   dirVars, diagVars>>
    /\ UNCHANGED <<did_doc, snapshots, lastSnap, it, src, errs, edits, k,
                   best_text,
                   best_errs, doc_code>>
    /\ UNCHANGED <<src0, nExtend, nDoc, nRepair, oracleRet, allContent,
                   noMarker,
                   preErrs, lastDet, docOutcome>>
    /\ UNCHANGED <<innovWrote, tried, lastPick, diagIt, preTrial>>

\* The build at the top of an iteration when lake is missing: subprocess.run
\* raises FileNotFoundError, which nothing in loop() catches
L_BuildRaises ==
    /\ pc = "build"
    /\ ~LakePresent(tools)
    /\ nBuilds' = nBuilds + 1
    /\ pc' = "raised"
    /\ UNCHANGED <<envVars, cfgVars, graphVars, fixVars, dirVars, diagVars>>
    /\ UNCHANGED <<updates, did_doc, snapshots, lastSnap, it, src, rc, err,
                   errs, edits,
                   k, best_text, best_errs, pre, preFile, doc_code, ret>>
    /\ UNCHANGED <<src0, nExtend, nDoc, nRepair, oracleRet, allBuildsOk,
                   allContent, noMarker, preErrs, lastDet, docOutcome>>
    /\ UNCHANGED caseVars

\* The innovation step: _call_llm_innovate and what follows it
L_Innovate ==
    /\ pc = "innovate"
    /\ \E content \in RawResponses :
        LET new_code == _call_llm_innovate(client, content) IN
        /\ OracleReturned(new_code)
        /\ nExtend' = nExtend + 1
        /\ innovWrote' = (innovWrote \/ Truthy(new_code))
        /\ IF ~Truthy(new_code)
           THEN /\ Return(TRUE)
                /\ UNCHANGED <<file, stale, snapshots, lastSnap, src, it>>
           ELSE /\ _write_target(new_code.text, Tag(it, "innov"))
                /\ src' = new_code.text
                /\ Continue
    /\ UNCHANGED <<lastExit, cfgVars, graphVars, fixVars, dirVars,
                   diagVars>>
    /\ UNCHANGED <<updates, did_doc, rc, err, errs, edits, k, best_text,
                   best_errs, pre, preFile, doc_code>>
    /\ UNCHANGED <<src0, nBuilds, nDoc, nRepair, allBuildsOk, preErrs,
                   lastDet, docOutcome>>
    /\ UNCHANGED <<cleanBuilt, tried, lastPick, diagIt, preTrial>>

\* The documentation phase up to the verification rebuild
L_Document ==
    /\ pc = "document"
    /\ \E content \in RawResponses :
        LET d == _call_llm_document(client, content) IN
        /\ OracleReturned(d)
        /\ nDoc' = nDoc + 1
        /\ doc_code' = d
        /\ IF Truthy(d)
           THEN /\ _write_target(d.text, Tag(it, "docs"))
                /\ pc' = "doc_rebuild"
                /\ UNCHANGED <<it, ret, docOutcome>>
           ELSE /\ docOutcome' = "absent"
                /\ DocPhaseExit
                /\ UNCHANGED <<file, stale, snapshots, lastSnap>>
    /\ UNCHANGED <<lastExit, cfgVars, graphVars, fixVars, dirVars,
                   diagVars>>
    /\ UNCHANGED <<updates, did_doc, src, rc, err, errs, edits, k,
                   best_text, best_errs, pre, preFile>>
    /\ UNCHANGED <<src0, nBuilds, nExtend, nRepair, allBuildsOk, preErrs,
                   lastDet>>
    /\ UNCHANGED caseVars

\* The verification rebuild of the documented file, and the revert
L_DocRebuild ==
    /\ pc = "doc_rebuild"
    /\ \E r \in LakeOutcomes :
        /\ RunLakeBuild(r)
        /\ IF r.rc # 0
           THEN /\ _write_target(RevertText(pre, doc_code.text),
                                 Tag(it, "docs_revert"))
                /\ docOutcome' = "reverted"
                /\ UNCHANGED <<src, did_doc>>
           ELSE /\ src' = doc_code.text
                /\ did_doc' = TRUE
                /\ docOutcome' = "kept"
                /\ UNCHANGED <<file, stale, snapshots, lastSnap>>
    /\ DocPhaseExit
    /\ UNCHANGED <<cfgVars, graphVars, fixVars, dirVars, diagVars>>
    /\ UNCHANGED <<updates, rc, err, errs, edits, k, best_text, best_errs,
                   pre, preFile, doc_code>>
    /\ UNCHANGED <<src0, nExtend, nDoc, nRepair, oracleRet, allContent,
                   noMarker,
                   preErrs, lastDet>>
    /\ UNCHANGED caseVars

\* The test of the fix engine's answer when its edits are never used
HasEdits_Never(eds) == FALSE

\* if edits: the fix engine proposed something (Case B), else Case C
HasEdits(eds) == eds # <<>>

\* Case B of loop: collect diagnostics and ask the fix engine
L_Diagnose ==
    /\ pc = "diagnose"
    /\ \E r \in LeanOutcomes :
        LET diags == diagnostics(r)
            es    == ErrorTexts(diags)
            eds   == propose_deterministic_fixes(src, es)
        IN  /\ RunLeanMake(r)
            /\ errs' = es
            /\ preErrs' = Len(es)
            /\ edits' = eds
            /\ diagIt' = it
            /\ preTrial' = src
            /\ tried' = <<>>
            /\ IF HasEdits(eds)
               THEN /\ best_text' = None
                    /\ best_errs' = BigErrs
                    /\ k' = 1
                    /\ pc' = "trial_write"
               ELSE /\ pc' = "repair"
                    /\ UNCHANGED <<best_text, best_errs, k>>
    /\ UNCHANGED <<file, stale, lastExit, cfgVars, graphVars, fixVars,
                   dirVars, diagVars>>
    /\ UNCHANGED <<updates, did_doc, snapshots, lastSnap, it, src, rc, err,
                   pre, preFile,
                   doc_code, ret>>
    /\ UNCHANGED <<src0, nBuilds, nExtend, nDoc, nRepair, oracleRet,
                   allBuildsOk, allContent, noMarker, lastDet, docOutcome>>
    /\ UNCHANGED <<cleanBuilt, innovWrote, lastPick>>

\* The text a candidate is made from, when each edit is applied to what the
\* file holds after the previous trial
TrialBase_Compound(srcText, fileText) == fileText

\* The text a candidate is made from: cand = apply_edit(src, ed)
TrialBase(srcText, fileText) == srcText

\* The trial write of candidate k: self.target.write_text(cand)
L_TrialWrite ==
    /\ pc = "trial_write"
    /\ file' = apply_edit(TrialBase(src, file), edits[k])
    /\ stale' = "trial"
    /\ pc' = "trial_diag"
    /\ UNCHANGED <<lastExit, cfgVars, graphVars, fixVars, dirVars,
                   diagVars,
                   histVars>>
    /\ UNCHANGED <<updates, did_doc, snapshots, lastSnap, it, src, rc, err,
                   errs, edits,
                   k, best_text, best_errs, pre, preFile, doc_code, ret>>
    /\ UNCHANGED caseVars

\* A candidate that also replaces the best one on a tie
Better_OrEqual(err2, best) == err2 <= best

\* if err2 < best_errs: the candidate becomes the best one
Better(err2, best) == err2 < best

\* The diagnosis of candidate k; after the last one, the choice of the best
L_TrialDiag ==
    /\ pc = "trial_diag"
    /\ \E r \in LeanOutcomes :
        LET err2   == ErrorCount(diagnostics(r))
            better == Better(err2, best_errs)
            bt     == IF better THEN Some(file) ELSE best_text
            be     == IF better THEN err2 ELSE best_errs
            tr     == Append(tried, [cand |-> file, errs |-> err2])
        IN  /\ RunLeanMake(r)
            /\ tried' = tr
            /\ best_text' = bt
            /\ best_errs' = be
            /\ IF k < BeamCount(edits, beam)
               THEN /\ k' = k + 1
                    /\ pc' = "trial_write"
                    /\ UNCHANGED <<file, stale, snapshots, lastSnap, src, it,
                                   ret, lastDet,
                                   lastPick>>
               ELSE /\ k' = k
                    /\ IF bt = None
                       THEN /\ Return(FALSE)
                            /\ UNCHANGED <<file, stale, snapshots, lastSnap,
                                           src, it, lastDet,
                                           lastPick>>
                       ELSE /\ _write_target(bt.text, Tag(it, "det"))
                            /\ src' = bt.text
                            /\ lastDet' = [pre |-> Len(errs), post |-> be]
                            /\ lastPick' = [text |-> bt.text, tried |-> tr,
                                            base |-> src, edits |-> edits]
                            /\ Continue
    /\ UNCHANGED <<lastExit, cfgVars, graphVars, fixVars, dirVars, diagVars>>
    /\ UNCHANGED <<updates, did_doc, rc, err, errs, edits, pre, preFile,
                   doc_code>>
    /\ UNCHANGED <<src0, nBuilds, nExtend, nDoc, nRepair, oracleRet,
                   allBuildsOk, allContent, noMarker, preErrs, docOutcome>>
    /\ UNCHANGED <<cleanBuilt, innovWrote, diagIt, preTrial>>

\* Case C of loop: _call_llm_repair and what follows it
L_Repair ==
    /\ pc = "repair"
    /\ \E content \in RawResponses :
        LET new_code == _call_llm_repair(client, content) IN
        /\ OracleReturned(new_code)
        /\ nRepair' = nRepair + 1
        /\ IF AfterRepair(new_code) = "return"
           THEN /\ Return(FALSE)
                /\ UNCHANGED <<file, stale, snapshots, lastSnap, src, it>>
           ELSE /\ IF Truthy(new_code)
                   THEN /\ _write_target(new_code.text, Tag(it, "llmrepair"))
                        /\ src' = new_code.text
                   ELSE UNCHANGED <<file, stale, snapshots, lastSnap, src>>
                /\ Continue
    /\ UNCHANGED <<lastExit, cfgVars, graphVars, fixVars, dirVars,
                   diagVars>>
    /\ UNCHANGED <<updates, did_doc, rc, err, errs, edits, k, best_text,
                   best_errs, pre, preFile, doc_code>>
    /\ UNCHANGED <<src0, nBuilds, nExtend, nDoc, allBuildsOk, preErrs,
                   lastDet, docOutcome>>
    /\ UNCHANGED caseVars

LoopNext ==
    \/ L_Start
    \/ L_Build
    \/ L_BuildRaises
    \/ L_Innovate
    \/ L_Document
    \/ L_DocRebuild
    \/ L_Diagnose
    \/ L_TrialWrite
    \/ L_TrialDiag
    \/ L_Repair

\* The working file and the toolchain before the first step
EnvInit ==
    /\ file \in InitTexts
    /\ stale = "none"
    /\ tools \in {"all", "no_lake", "none"}
    /\ lastExit = [c \in {} |-> 0]

\* The locals of loop() and the history before loop() is called
LoopIdle ==
    /\ did_doc = FALSE
    /\ snapshots = [t \in {} |-> <<>>]
    /\ lastSnap = NoTag
    /\ it = 0
    /\ src = <<>>
    /\ rc = 0
    /\ err = <<>>
    /\ errs = <<>>
    /\ edits = <<>>
    /\ k = 0
    /\ best_text = None
    /\ best_errs = BigErrs
    /\ pre = <<>>
    /\ doc_code = None
    /\ ret = FALSE
    /\ src0 = <<>>
    /\ preFile = <<>>
    /\ nBuilds = 0
    /\ nExtend = 0
    /\ nDoc = 0
    /\ nRepair = 0
    /\ oracleRet = None
    /\ allBuildsOk = TRUE
    /\ allContent = TRUE
    /\ noMarker = TRUE
    /\ preErrs = 0
    /\ lastDet = [pre |-> 0, post |-> 0]
    /\ docOutcome = "none"
    /\ cleanBuilt = FALSE
    /\ innovWrote = FALSE
    /\ tried = <<>>
    /\ lastPick = [text |-> <<>>, tried |-> <<>>, base |-> <<>>,
                   edits |-> <<>>]
    /\ diagIt = 0
    /\ preTrial = <<>>

\* The extension budget taken as given, negative values included
NormUpdates_Raw(u) == u

\* self.updates = max(0, updates)
NormUpdates(u) == Max(0, u)

\* AgentRunner.__init__
RunnerInit ==
    /\ \E a \in 0..MaxItersArg : max_iters = Max(1, a)
    /\ \E b \in 0..MaxBeamArg : beam = Max(1, b)
    /\ \E u \in (-1)..MaxUpdatesArg : updates = NormUpdates(u)
    /\ updates0 = updates
    /\ client \in BOOLEAN
    /\ pc = "start"
    /\ LoopIdle

\* No AgentRunner in this session
RunnerIdle ==
    /\ max_iters = 1
    /\ beam = 1
    /\ updates = 0
    /\ updates0 = 0
    /\ client = FALSE
    /\ pc = "idle"
    /\ LoopIdle

---------------------------------------------------------------------------
(* langgraph_app.py *)

\* resp.content: what the patch model can answer
PatchTexts == { <<>>, <<NL>>, <<"diff">> }

\* What the patch program can leave in the file
PatchedTexts(old) == { old, <<"y">> }

\* deterministic_fix_node: if errc <= len(s["errors"])
DetAccept(errc, n) == errc <= n

\* router_after_build
\* router_after_build with a strict comparison against the budget
router_after_build_Strict(st) ==
    IF st.status = "ok" \/ st.iters > st.max_iters THEN "END" ELSE "diagnose"

router_after_build(st) ==
    IF st.status = "ok" \/ st.iters >= st.max_iters THEN "END" ELSE "diagnose"

\* diagnose_node
G_Diagnose ==
    /\ gnode = "diagnose"
    /\ \E r \in LeanOutcomes :
        LET es == ErrorTexts(diagnostics(r)) IN
        /\ RunLeanMake(r)
        /\ s' = [s EXCEPT !.errors = es,
                          !.status = IF es = <<>> THEN "ok" ELSE "dirty"]
    /\ gnode' = "deterministic"
    /\ UNCHANGED <<file, stale, lastExit, runnerVars, fixVars, dirVars,
                   diagVars>>
    /\ UNCHANGED <<g_src, g_edits, g_k, api_key, patchFailed, g_builds,
                   g_lastDet>>

\* diagnose_node when neither lake nor lean is found: run_lean_make raises
\* FileNotFoundError from its fallback, which no node catches
G_DiagnoseRaises ==
    /\ gnode = "diagnose"
    /\ ~LeanRunnable(tools)
    /\ gnode' = "raised"
    /\ UNCHANGED <<envVars, runnerVars, fixVars, dirVars, diagVars>>
    /\ UNCHANGED <<s, g_src, g_edits, g_k, api_key, patchFailed, g_builds,
                   g_lastDet>>

\* deterministic_fix_node: read the file and ask the fix engine
G_Deterministic ==
    /\ gnode = "deterministic"
    /\ g_src' = read_text(file)
    /\ g_edits' = propose_deterministic_fixes(read_text(file), s.errors)
    /\ IF g_edits' = <<>>
       THEN gnode' = "propose" /\ g_k' = g_k
       ELSE gnode' = "det_write" /\ g_k' = 1
    /\ UNCHANGED <<envVars, runnerVars, fixVars, dirVars, diagVars>>
    /\ UNCHANGED <<s, api_key, patchFailed, g_builds, g_lastDet>>

\* deterministic_fix_node: p.write_text(new_src) for edit g_k
G_DetWrite ==
    /\ gnode = "det_write"
    /\ file' = apply_edit(TrialBase(g_src, file), g_edits[g_k])
    /\ stale' = "trial"
    /\ gnode' = "det_diag"
    /\ UNCHANGED <<lastExit, runnerVars, fixVars, dirVars, diagVars>>
    /\ UNCHANGED <<s, g_src, g_edits, g_k, api_key, patchFailed, g_builds,
                   g_lastDet>>

\* deterministic_fix_node: re-diagnose, then accept or revert
G_DetDiag ==
    /\ gnode = "det_diag"
    /\ \E r \in LeanOutcomes :
        LET diags == diagnostics(r)
            errc  == ErrorCount(diags)
        IN  /\ RunLeanMake(r)
            /\ IF DetAccept(errc, Len(s.errors))
               THEN /\ s' = [s EXCEPT !.errors = ErrorTexts(diags)]
                    /\ g_lastDet' = [pre |-> Len(s.errors), post |-> errc]
                    /\ gnode' = "propose"
                    /\ UNCHANGED <<file, stale, g_k>>
               ELSE /\ file' = g_src
                    /\ stale' = "revert"
                    /\ IF g_k < Len(g_edits)
                       THEN gnode' = "det_write" /\ g_k' = g_k + 1
                       ELSE gnode' = "propose" /\ g_k' = g_k
                    /\ UNCHANGED <<s, g_lastDet>>
    /\ UNCHANGED <<lastExit, runnerVars, fixVars, dirVars, diagVars>>
    /\ UNCHANGED <<g_src, g_edits, api_key, patchFailed, g_builds>>

\* propose_llm_patch_node
G_Propose ==
    /\ gnode = "propose"
    /\ IF ~api_key
       THEN s' = [s EXCEPT !.patch = None]
       ELSE \E content \in PatchTexts : s' = [s EXCEPT !.patch = Some(content)]
    /\ gnode' = "apply"
    /\ UNCHANGED <<envVars, runnerVars, fixVars, dirVars, diagVars>>
    /\ UNCHANGED <<g_src, g_edits, g_k, api_key, patchFailed, g_builds,
                   g_lastDet>>

\* A patch test that lets a blank patch through
NoPatch_OnlyNone(patch) == patch.none

\* if not s["patch"] or not s["patch"].strip()
NoPatch(patch) == ~Truthy(patch) \/ strip(patch.text) = <<>>

\* apply_patch_node; ok is what apply_unified_diff returns, and wrote says
\* whether the patch program rewrote the file (it can rewrite it with the
\* bytes it had); nothing refreshes the modification time after it
G_Apply ==
    /\ gnode = "apply"
    /\ IF NoPatch(s.patch)
       THEN UNCHANGED <<file, stale, s, patchFailed>>
       ELSE \E ok \in BOOLEAN, new \in PatchedTexts(file), wrote \in BOOLEAN :
               /\ new # file => wrote
               /\ file' = new
               /\ stale' = IF wrote THEN "patch" ELSE stale
               /\ s' = IF ~ok THEN [s EXCEPT !.status = "stuck"] ELSE s
               /\ patchFailed' = (patchFailed \/ ~ok)
    /\ gnode' = "build"
    /\ UNCHANGED <<lastExit, runnerVars, fixVars, dirVars, diagVars>>
    /\ UNCHANGED <<g_src, g_edits, g_k, api_key, g_builds, g_lastDet>>

\* build_node, and the routing after it
G_Build ==
    /\ gnode = "build"
    /\ LakePresent(tools)
    /\ \E r \in LakeOutcomes :
        LET s1 == IF r.rc = 0
                  THEN [s EXCEPT !.status = "ok", !.errors = <<>>]
                  ELSE [s EXCEPT !.status = "dirty",
                                 !.errors = IF r.err # <<>> THEN <<r.err>>
                                            ELSE s.errors]
            s2 == [s1 EXCEPT !.iters = s1.iters + 1]
        IN  /\ r \in LakeOutcomes
            /\ lastExit' = Remember(lastExit, file, ExitCode(r))
            /\ s' = s2
            /\ gnode' = router_after_build(s2)
    /\ g_builds' = g_builds + 1
    /\ UNCHANGED <<file, stale, runnerVars, fixVars, dirVars,
                   diagVars>>
    /\ UNCHANGED <<g_src, g_edits, g_k, api_key, patchFailed, g_lastDet>>

\* build_node when lake is missing: run_lake_build raises FileNotFoundError
G_BuildRaises ==
    /\ gnode = "build"
    /\ ~LakePresent(tools)
    /\ g_builds' = g_builds + 1
    /\ gnode' = "raised"
    /\ UNCHANGED <<envVars, runnerVars, fixVars, dirVars, diagVars>>
    /\ UNCHANGED <<s, g_src, g_edits, g_k, api_key, patchFailed, g_lastDet>>

GraphNext ==
    \/ G_Diagnose
    \/ G_DiagnoseRaises
    \/ G_BuildRaises
    \/ G_Deterministic
    \/ G_DetWrite
    \/ G_DetDiag
    \/ G_Propose
    \/ G_Apply
    \/ G_Build

\* cli(): the initial AgentState
GraphInit ==
    /\ \E m \in 0..MaxItersArg :
          s = [iters |-> 0, max_iters |-> m, status |-> "dirty",
               errors |-> <<>>, patch |-> None]
    /\ gnode = "diagnose"
    /\ api_key \in BOOLEAN
    /\ g_src = <<>>
    /\ g_edits = <<>>
    /\ g_k = 0
    /\ patchFailed = FALSE
    /\ g_builds = 0
    /\ g_lastDet = [pre |-> 0, post |-> 0]

\* No graph in this session
GraphIdle ==
    /\ s = [iters |-> 0, max_iters |-> 0, status |-> "dirty",
            errors |-> <<>>, patch |-> None]
    /\ gnode = "idle"
    /\ api_key = FALSE
    /\ g_src = <<>>
    /\ g_edits = <<>>
    /\ g_k = 0
    /\ patchFailed = FALSE
    /\ g_builds = 0
    /\ g_lastDet = [pre |-> 0, post |-> 0]

---------------------------------------------------------------------------
(* The fix engine on its own *)

SeqsUpTo(S, n) == UNION { [1..m -> S] : m \in 0..n }

\* Tokens of the source texts given to the fix engine
SourceTokens == { "x", SP, LOGMOD, "open", "Classical" }

\* Diagnostic texts given to the fix engine
ErrorTextsIn ==
    { SigLog, SigClassical, <<"unknown identifier">>, <<"'Real.log'">>,
      <<"error">> }

FixInit ==
    /\ f_pc = "call"
    /\ f_source \in SeqsUpTo(SourceTokens, MaxSrcLen)
    /\ f_errors \in SeqsUpTo(ErrorTextsIn, MaxErrors)
    /\ f_edits = <<>>
    /\ f_applied = <<>>

FixIdle ==
    /\ f_pc = "idle"
    /\ f_source = <<>>
    /\ f_errors = <<>>
    /\ f_edits = <<>>
    /\ f_applied = <<>>

\* edits = propose_deterministic_fixes(file, source, errors)
F_Propose ==
    /\ f_pc = "call"
    /\ f_edits' = propose_deterministic_fixes(f_source, f_errors)
    /\ f_pc' = "proposed"
    /\ UNCHANGED <<f_source, f_errors, f_applied>>
    /\ UNCHANGED <<envVars, runnerVars, graphVars, dirVars, diagVars>>

\* source = apply_edit(source, ed) for one of the proposed edits
F_Apply ==
    /\ f_pc = "proposed"
    /\ \E i \in DOMAIN f_edits :
        LET after == apply_edit(f_source, f_edits[i]) IN
        /\ f_applied' = Append(f_applied,
               [edit |-> f_edits[i], before |-> f_source, after |-> after])
        /\ f_source' = after
    /\ f_pc' = "call"
    /\ UNCHANGED <<f_errors, f_edits>>
    /\ UNCHANGED <<envVars, runnerVars, graphVars, dirVars, diagVars>>

FixNext ==
    \/ F_Propose
    \/ F_Apply

---------------------------------------------------------------------------
(* Specifications *)

---------------------------------------------------------------------------
(* The diagnostics collector on arbitrary results of run_lean_make *)

MaxDiagLen == 3
DiagTokens == { "e", "w", SP, NL }
DiagCodes == { 0, 1, 2 }

DiagIdle ==
    /\ dg_pc = "idle"
    /\ dg_in = [rc |-> 0, out |-> <<>>, err |-> <<>>]
    /\ dg_out = <<>>

DiagInit ==
    /\ dg_pc = "called"
    /\ dg_in \in [rc : DiagCodes, out : SeqsUpTo(DiagTokens, 1),
                  err : SeqsUpTo(DiagTokens, MaxDiagLen)]
    /\ dg_out = <<>>

\* LeanProject.diagnostics returns
Dg_Return ==
    /\ dg_pc = "called"
    /\ dg_out' = diagnostics(dg_in)
    /\ dg_pc' = "returned"
    /\ UNCHANGED dg_in
    /\ UNCHANGED <<envVars, runnerVars, graphVars, fixVars, dirVars>>

DiagNext == Dg_Return

---------------------------------------------------------------------------
(* Run directories: AgentRunner.__init__ and _save_snapshot of several
   sessions on the same project *)

Sessions == {1, 2}
TicksPerSecond == 2
MaxTicks == 3
MaxSnaps == 2
NoDir == -1

\* datetime.now().strftime("%Y%m%d-%H%M%S"): the clock cut to whole seconds
strftime(t) == t \div TicksPerSecond

\* snapshots_dir.mkdir(parents=True, exist_ok=True): an existing directory is
\* kept with what it holds
mkdir(runs, d) ==
    [x \in DOMAIN runs \cup {d} |->
        IF x \in DOMAIN runs THEN runs[x] ELSE [tg \in {} |-> <<>>]]

\* The tags loop can give the snapshot that follows the one tagged last:
\* iter000 first; an iteration that goes on saves one snapshot, named after
\* the branch it took; the documentation step saves iterNNN_docs, then at
\* most iterNNN_docs_revert of the same iteration, and loop returns
SnapTags(last) ==
    IF last = NoTag THEN {Tag(0, "")}
    ELSE IF last.suffix = "docs" THEN {Tag(last.iter, "docs_revert")}
    ELSE IF last.suffix = "docs_revert" THEN {}
    ELSE {Tag(last.iter + 1, sfx) :
            sfx \in {"innov", "docs", "det", "llmrepair"}}

\* The texts a session snapshots: the file as it was read, an oracle's answer
SnapTexts == {read_text(tx) : tx \in InitTexts} \cup {<<"y">>}

\* write() at offset 0 of a file that holds old: the bytes past the written
\* ones stay
Overlay(content, old) ==
    content \o SubSeq(old, Len(content) + 1, Len(old))

DirIdle ==
    /\ d_open = [i \in Sessions |-> None]
    /\ d_tag = [i \in Sessions |-> NoTag]
    /\ clock = 0
    /\ run_dir = [i \in Sessions |-> NoDir]
    /\ agent_runs = [d \in {} |-> 0]
    /\ d_step = [i \in Sessions |-> 0]
    /\ writers = [q \in {} |-> {}]

\* Time passes
D_Tick ==
    /\ clock < MaxTicks
    /\ clock' = clock + 1
    /\ UNCHANGED <<run_dir, agent_runs, d_step, writers, d_open, d_tag>>
    /\ UNCHANGED <<envVars, runnerVars, graphVars, fixVars, diagVars>>

\* AgentRunner.__init__ of session i: name and create the run directory
D_Construct(i) ==
    /\ run_dir[i] = NoDir
    /\ LET ts == strftime(clock) IN
        /\ run_dir' = [run_dir EXCEPT ![i] = ts]
        /\ agent_runs' = mkdir(agent_runs, ts)
    /\ UNCHANGED <<clock, d_step, writers, d_open, d_tag>>
    /\ UNCHANGED <<envVars, runnerVars, graphVars, fixVars, diagVars>>

\* AgentRunner._save_snapshot called by session i, first half: write_text
\* opens the snapshot file for writing, which creates or empties it
D_OpenSnapshot(i) ==
    /\ run_dir[i] # NoDir
    /\ d_step[i] < MaxSnaps
    /\ d_open[i] = None
    /\ \E content \in SnapTexts, tag \in SnapTags(d_tag[i]) :
        LET d   == run_dir[i]
            q   == <<d, tag>>
        IN  /\ d_tag' = [d_tag EXCEPT ![i] = tag]
            /\ agent_runs' =
                [agent_runs EXCEPT ![d] = _save_snapshot(@, tag, <<>>)]
            /\ writers' =
                [x \in DOMAIN writers \cup {q} |->
                    IF x = q
                    THEN (IF q \in DOMAIN writers THEN writers[q] ELSE {})
                            \cup {i}
                    ELSE writers[x]]
            /\ d_open' = [d_open EXCEPT ![i] = Some(content)]
    /\ UNCHANGED <<clock, run_dir, d_step>>
    /\ UNCHANGED <<envVars, runnerVars, graphVars, fixVars, diagVars>>

\* AgentRunner._save_snapshot called by session i, second half: write_text
\* writes the text from the start of the file and closes it
D_SaveSnapshot(i) ==
    /\ d_open[i] # None
    /\ LET d   == run_dir[i]
           tag == d_tag[i]
       IN  agent_runs' =
               [agent_runs EXCEPT ![d] =
                   _save_snapshot(@, tag, Overlay(d_open[i].text, @[tag]))]
    /\ d_open' = [d_open EXCEPT ![i] = None]
    /\ d_step' = [d_step EXCEPT ![i] = @ + 1]
    /\ UNCHANGED <<clock, run_dir, writers, d_tag>>
    /\ UNCHANGED <<envVars, runnerVars, graphVars, fixVars, diagVars>>

DirNext ==
    \/ D_Tick
    \/ \E i \in Sessions : D_Construct(i)
    \/ \E i \in Sessions : D_OpenSnapshot(i)
    \/ \E i \in Sessions : D_SaveSnapshot(i)

RunDirInit ==
    /\ file = <<"x">>
    /\ stale = "none"
    /\ tools = "all"
    /\ lastExit = [c \in {} |-> 0]
    /\ RunnerIdle
    /\ GraphIdle
    /\ FixIdle
    /\ DirIdle
    /\ DiagIdle

RunDirSpec == RunDirInit /\ [][DirNext]_vars


\* A session runs AgentRunner.loop (main.py) or the graph (langgraph_app.py)
Init ==
    /\ EnvInit
    /\ FixIdle
    /\ DirIdle
    /\ DiagIdle
    /\ \/ RunnerInit /\ GraphIdle
       \/ RunnerIdle /\ GraphInit

Next ==
    \/ L_Start
    \/ L_Build
    \/ L_BuildRaises
    \/ L_Innovate
    \/ L_Document
    \/ L_DocRebuild
    \/ L_Diagnose
    \/ L_TrialWrite
    \/ L_TrialDiag
    \/ L_Repair
    \/ G_Diagnose
    \/ G_DiagnoseRaises
    \/ G_Deterministic
    \/ G_DetWrite
    \/ G_DetDiag
    \/ G_Propose
    \/ G_Apply
    \/ G_Build
    \/ G_BuildRaises

Spec == Init /\ [][Next]_vars

\* The fix engine called twice around apply_edit
FixSpecInit ==
    /\ file = <<>>
    /\ stale = "none"
    /\ tools = "all"
    /\ lastExit = [c \in {} |-> 0]
    /\ RunnerIdle
    /\ GraphIdle
    /\ FixInit
    /\ DirIdle
    /\ DiagIdle

FixSpec == FixSpecInit /\ [][FixNext]_vars

DiagSpecInit ==
    /\ file = <<>>
    /\ stale = "none"
    /\ tools = "all"
    /\ lastExit = [c \in {} |-> 0]
    /\ RunnerIdle
    /\ GraphIdle
    /\ FixIdle
    /\ DirIdle
    /\ DiagInit

DiagSpec == DiagSpecInit /\ [][DiagNext]_vars

---------------------------------------------------------------------------
(* Properties *)

HasMarker(text) == Contains(<<SORRY>>, text)

\* C1, as stated: one call of AgentRunner.loop invokes run_lake_build at
\* most max_iters times.
C1_BuildsWithinMaxIters == nBuilds <= max_iters

\* C1, amended: loop runs at most max_iters iterations and invokes
\* run_lake_build at most max_iters + 1 times: once per iteration, and once
\* more for the verification rebuild of the documentation phase.
C1_BuildBudget ==
    /\ it <= max_iters
    /\ nBuilds <= it + nDoc
    /\ nBuilds <= max_iters + 1

C1_Witness == pc = "done" /\ max_iters = 2 /\ it = 2 /\ nBuilds = 3

\* C2: in the graph variant, once apply_unified_diff has returned false the
\* status is stuck and stays stuck, and the graph ends without entering
\* another diagnose/deterministic/propose/apply cycle.
C2_PatchFailureStops ==
    patchFailed => (s.status = "stuck" /\ gnode \in {"build", "END"})

\* C3: when the documentation was written and the verification rebuild
\* failed, the content of the working file at the return of loop equals, byte
\* for byte, its content immediately before the documentation step.
C3_RevertInvariant ==
    (pc = "done" /\ docOutcome = "reverted") => file = preFile

\* C4: in both variants an accepted deterministic edit leaves at most as many
\* error diagnostics as were observed before the candidates were tried.
C4_NonRegression ==
    /\ lastDet.post <= lastDet.pre
    /\ g_lastDet.post <= g_lastDet.pre

C4_Witness ==
    /\ pc = "build"
    /\ it = 2
    /\ lastDet.pre = 1
    /\ lastDet.post = 1
    /\ file = src
    /\ Contains(RemedyLog, file)

\* C5: when loop returns True, the last build of the final content of the
\* working file succeeded and that content does not contain sorry.
C5_OkMeansCleanBuild ==
    (pc = "done" /\ ret) =>
        /\ file \in DOMAIN lastExit
        /\ lastExit[file].rc = 0
        /\ ~HasMarker(file)

\* C6: when Case C is reached (no clean build, no edit proposed) and the
\* repair oracle returns absent, loop returns False in that iteration, with
\* no further build or oracle call; nothing happens after the return.
C6_RepairAbsentStops ==
    [][ /\ (pc = "repair" /\ oracleRet' = None) =>
            /\ pc' = "done"
            /\ ret' = FALSE
            /\ it' = it
            /\ nBuilds' = nBuilds
            /\ nExtend' = nExtend
            /\ nDoc' = nDoc
            /\ nRepair' = nRepair + 1
        /\ pc = "done" => UNCHANGED vars ]_vars

C6_Witness ==
    /\ pc = "done"
    /\ ~client
    /\ nRepair = 1
    /\ oracleRet = None
    /\ ret = FALSE
    /\ it = 1
    /\ max_iters = 2

\* The conditions of C7: no marker in the source, every build succeeded,
\* every oracle call returned content, and max_iters exceeds the budget.
C7_Conditions ==
    /\ pc = "done"
    /\ ~HasMarker(src0)
    /\ allBuildsOk
    /\ allContent
    /\ max_iters > updates0

C7_Outcome ==
    /\ nExtend = updates0
    /\ it = updates0 + 1
    /\ nBuilds = updates0 + 2
    /\ nDoc = 1
    /\ ret = TRUE

\* C7, as stated: under the conditions above loop performs exactly k extend
\* calls, each followed by the build of the next iteration, then enters the
\* documentation phase once and returns True.
C7_ExtendThenDocument == C7_Conditions => C7_Outcome

\* C7, amended: the same, provided no text returned by the oracle contains
\* the marker sorry.
C7_ExtendThenDocumentMarkerFree == (C7_Conditions /\ noMarker) => C7_Outcome

C7_Witness ==
    /\ C7_Conditions
    /\ noMarker
    /\ updates0 = 1
    /\ nExtend = 1
    /\ docOutcome = "kept"

\* C8: propose_deterministic_fixes emits no edit for a signature whose remedy
\* is already in the source, and none for a signature whose edit has been
\* applied to the source with apply_edit.
C8_Idempotence ==
    f_pc = "proposed" =>
        \A i \in DOMAIN f_edits :
            /\ ~Contains(RemedyOf(f_edits[i].note), f_source)
            /\ \A j \in DOMAIN f_applied :
                   f_applied[j].edit.note # f_edits[i].note

C8_Witness ==
    /\ f_pc = "proposed"
    /\ Len(f_applied) = 1
    /\ f_applied[1].edit.note = "import log"
    /\ Contains(SigLog, Join(f_errors))
    /\ ~Contains(SigClassical, Join(f_errors))
    /\ f_edits = <<>>

\* C9: when the errors name the unknown identifier Real.log (and no other
\* signature) and the source lacks the import, exactly one edit over [0, 0)
\* is proposed, and applying it yields the import line followed by the
\* original source.
C9_PureInsertion ==
    /\ ( /\ f_pc = "proposed"
         /\ Contains(SigLog, Join(f_errors))
         /\ ~Contains(SigClassical, Join(f_errors))
         /\ ~Contains(RemedyLog, f_source) )
       => ( /\ Len(f_edits) = 1
            /\ f_edits[1].start = 0
            /\ f_edits[1].end = 0 )
    /\ \A j \in DOMAIN f_applied :
          f_applied[j].edit.note = "import log" =>
              f_applied[j].after = InsLog \o f_applied[j].before

\* C10: in a run of loop the document oracle is invoked at most once.
C10_DocumentAtMostOnce == nDoc <= 1

C10_Witness ==
    /\ pc = "done"
    /\ nDoc = 1
    /\ docOutcome = "absent"
    /\ it < max_iters
    /\ ~did_doc

\* C11: once loop has entered the documentation phase (the document oracle
\* was asked), did_doc is true when the loop returns, whatever the outcome of
\* the phase: oracle absent, rebuild failed and reverted, or rebuild passed.
C11_DocFlagSetEitherWay == (pc = "done" /\ nDoc > 0) => did_doc

\* C12: loop returns True if and only if a build of the working file's content
\* at the moment of return exits 0 (for every content whose build result is
\* known at that moment).
C12_TrueIffBuilds ==
    (pc = "done" /\ file \in DOMAIN lastExit)
        => (ret <=> lastExit[file].rc = 0)

\* C13: when the lake binary is missing, loop does not raise past its own
\* boundary and does not report success: it returns False.
C13_ToolAbsenceHandled ==
    (~LakePresent(tools) /\ pc # "idle")
        => (pc # "raised" /\ (pc = "done" => ~ret))

\* C14: two sessions on the same project, started concurrently or one after
\* the other (also within the same clock second), get distinct run
\* directories, and so no snapshot file is ever written by both.
C14_DistinctRunDirs ==
    /\ \A i, j \in Sessions :
          (i # j /\ run_dir[i] # NoDir /\ run_dir[j] # NoDir)
              => run_dir[i] # run_dir[j]
    /\ \A q \in DOMAIN writers : Cardinality(writers[q]) <= 1

\* C15: in the graph variant the iteration counter increases by exactly one
\* per completed build and by nothing else; the graph ends right after the
\* first build that sets status "ok" or brings the counter to max_iters, and
\* goes back to diagnose otherwise; nothing happens after the end; and at most
\* max(1, max_iters) builds are performed whatever the oracle and the patch
\* applicator do.
C15_Step ==
    /\ g_builds' <= Max(1, s'.max_iters)
    /\ s'.max_iters = s.max_iters
    /\ (g_builds' # g_builds /\ gnode' # "raised")
          => /\ g_builds' = g_builds + 1
             /\ s'.iters = s.iters + 1
             /\ (gnode' = "END")
                   <=> (s'.status = "ok" \/ s'.iters >= s'.max_iters)
             /\ gnode' \in {"END", "diagnose"}
    /\ g_builds' = g_builds => (s'.iters = s.iters /\ gnode' # "END")
    /\ gnode = "END" => UNCHANGED vars

C15_GraphBudget == [][C15_Step]_vars

C15_Witness ==
    /\ gnode = "END"
    /\ s.status = "dirty"
    /\ s.max_iters = 2
    /\ s.iters = 2
    /\ g_builds = 2
    /\ patchFailed

\* C16: an iteration whose build exits 0 with a non-empty error stream does
\* not take the clean-build branch: no extend call, no document call and no
\* success return happen in it.
C16_StderrIsFailure ==
    (pc \in {"innovate", "document", "doc_rebuild"} \/ (pc = "done" /\ ret))
        => err = <<>>

\* C17: if a build of the working file succeeded with no marker in the source
\* in some iteration, the content of the working file when loop returns also
\* builds successfully (for every content whose build result is known).
C17_OnceCleanStaysClean ==
    (pc = "done" /\ cleanBuilt /\ file \in DOMAIN lastExit)
        => lastExit[file].rc = 0

\* C17 (amended): if a build succeeded with no marker in the source in some
\* iteration and no extension was written during the run, loop returns True,
\* and the working file at return is either a content whose last build exited
\* 0 (the content just built, or the documentation whose verification rebuild
\* passed) or, after a failed verification rebuild, the text that was read
\* from the cleanly built file before the documentation was written.
C17_CleanStaysCleanWithoutExtension ==
    (pc = "done" /\ cleanBuilt /\ ~innovWrote)
        => /\ ret
           /\ docOutcome # "reverted"
                 => (file \in DOMAIN lastExit /\ lastExit[file].rc = 0)
           /\ docOutcome = "reverted"
                 => (file = pre /\ pre = read_text(preFile)
                     /\ preFile \in DOMAIN lastExit)

C17_Witness ==
    /\ pc = "done"
    /\ cleanBuilt
    /\ ~innovWrote
    /\ nRepair = 1
    /\ docOutcome = "reverted"
    /\ file = pre
    /\ ret

\* C18: every candidate tried in an iteration of loop is one edit applied to
\* the text the loop held of the file before the trials (the pre-trial text:
\* the file as it was read or written), never to an earlier candidate,
\* and that text and the edits do not change during the trials; in
\* deterministic_fix_node the candidate is one edit applied to the text read
\* at the start of the node, a rejected candidate is undone by rewriting that
\* text before the next candidate, and when the node returns the file holds
\* either that text or the accepted candidate.
TrialStates == {"trial_write", "trial_diag"}

C18_Step ==
    /\ \A j \in DOMAIN tried' :
          tried'[j].cand = apply_edit(preTrial', edits'[j])
    /\ pc' = "trial_diag" => file' = apply_edit(preTrial', edits'[k'])
    /\ (pc \in TrialStates /\ pc' \in TrialStates)
          => (preTrial' = preTrial /\ edits' = edits /\ src' = src)
    /\ gnode = "deterministic" => g_src' = read_text(file)
    /\ gnode' = "det_diag" => file' = apply_edit(g_src', g_edits'[g_k'])
    /\ (gnode = "det_diag" /\ gnode' = "det_write") => file' = g_src
    /\ (gnode = "det_diag" /\ gnode' = "propose")
          => (file' = g_src \/ file' = file)

C18_TrialsNeverCompound == [][C18_Step]_vars

C18_Witness ==
    /\ pc = "trial_diag"
    /\ k = 2
    /\ Len(tried) = 1
    /\ tried[1].cand = apply_edit(preTrial, edits[1])
    /\ file = apply_edit(preTrial, edits[2])
    /\ file # apply_edit(tried[1].cand, edits[2])

\* C19: in an iteration of loop at most beam candidates are tried, they are
\* the first beam edits in declaration order, and the candidate written as the
\* result of the iteration is the one among them with the lowest error count
\* after the edit, the earliest such candidate on a tie.
C19_BestOfBeam ==
    /\ Len(tried) <= beam
    /\ lastPick.tried # <<>> =>
        LET tr == lastPick.tried IN
        /\ Len(tr) = Min(beam, Len(lastPick.edits))
        /\ \A j \in DOMAIN tr :
              tr[j].cand = apply_edit(lastPick.base, lastPick.edits[j])
        /\ \E j \in DOMAIN tr :
              /\ lastPick.text = tr[j].cand
              /\ \A i \in DOMAIN tr : tr[j].errs <= tr[i].errs
              /\ \A i \in 1..(j - 1) : tr[i].errs > tr[j].errs

C19_Witness ==
    /\ beam = 2
    /\ Len(lastPick.tried) = 2
    /\ lastPick.tried[1].errs = lastPick.tried[2].errs
    /\ lastPick.tried[1].cand # lastPick.tried[2].cand
    /\ lastPick.text = lastPick.tried[1].cand
    /\ file = lastPick.text

\* C20: the repair oracle is called only in an iteration in which the build
\* was not clean (the clean-build branch was not taken) and the fix engine was
\* asked and returned no edits; in an iteration where the fix engine returned
\* at least one edit no oracle (repair, extend, document) is called.
C20_Step ==
    /\ nRepair' # nRepair
          => /\ diagIt = it
             /\ edits = <<>>
             /\ ~(rc = 0 /\ ~HasMarker(src))
             /\ nRepair' = nRepair + 1
    /\ (nRepair' # nRepair \/ nExtend' # nExtend \/ nDoc' # nDoc)
          => ~(diagIt = it /\ edits # <<>>)

C20_RepairOnlyWithoutEdits == [][C20_Step]_vars

C20_Witness ==
    /\ nRepair = 2
    /\ it = 2
    /\ diagIt = 2
    /\ edits = <<>>
    /\ rc = 1
    /\ lastPick.tried = <<>>
    /\ pc = "done"

\* C21: in the graph variant the oracle is asked for a patch only when error
\* diagnostics remain after the deterministic node: at the apply node a patch
\* answered by the oracle in this cycle goes with a non-empty error list.
C21_OracleOnlyWhenErrorsRemain ==
    (gnode = "apply" /\ ~s.patch.none) => s.errors # <<>>

\* C22: extend and document are called only in an iteration whose build
\* exited 0 on a source with no marker (the content on disk is the one that
\* was built, and the source is its text up to the line ends); document is
\* called only when the remaining extension budget is 0; and no extend call
\* follows a document call.
C22_Step ==
    /\ (nExtend' # nExtend \/ nDoc' # nDoc)
          => /\ rc = 0
             /\ ~HasMarker(src)
             /\ read_text(file) = read_text(src)
             /\ file \in DOMAIN lastExit
             /\ lastExit[file].rc = 0
    /\ nDoc' # nDoc => updates = 0
    /\ nExtend' # nExtend => nDoc = 0

C22_CaseAOnly == [][C22_Step]_vars

C22_Witness ==
    /\ pc = "done"
    /\ updates0 = 1
    /\ updates = 0
    /\ nExtend = 1
    /\ nDoc = 1
    /\ it = 2

\* C23: the remaining extension budget never increases and never goes below
\* 0; it decreases by exactly one at each extend call, also when the oracle
\* declines, and by nothing else (deterministic-fix and repair iterations
\* leave it unchanged); the number of extend calls is at most the configured
\* budget. The decrement precedes the call, so a call that is about to be
\* made is counted with the calls made.
ExtendCalls == nExtend + (IF pc = "innovate" THEN 1 ELSE 0)

C23_Step ==
    /\ updates' >= 0
    /\ updates' <= updates
    /\ updates' + ExtendCalls' = updates0'
    /\ nExtend' <= updates0'
    /\ ExtendCalls' # ExtendCalls
          => (ExtendCalls' = ExtendCalls + 1 /\ updates' = updates - 1)
    /\ pc \in {"diagnose", "trial_write", "trial_diag", "repair"}
          => updates' = updates

C23_BudgetMonotone == [][C23_Step]_vars

C23_Witness ==
    /\ pc = "done"
    /\ ret
    /\ updates0 = 1
    /\ updates = 0
    /\ nExtend = 1
    /\ ~innovWrote
    /\ oracleRet = None

\* C24: every version of the working file that loop produces is recorded in
\* the snapshot store: at the end of an iteration (the next iteration is about
\* to start, or loop has returned) the content on disk and every candidate
\* that was written for a trial in the iteration are the content of some
\* snapshot of the session.
Snapshotted(text) == \E tg \in DOMAIN snapshots : snapshots[tg] = text

C24_EveryVersionSnapshotted ==
    pc \in {"build", "done"}
        => /\ Snapshotted(file)
           /\ \A j \in DOMAIN tried : Snapshotted(tried[j].cand)

\* C25: within one run of loop every snapshot is saved under a tag not used
\* before in the session, so no snapshot is overwritten or deleted: the set of
\* (tag, content) records only grows, one record per save, and earlier
\* records keep their content.
C25_Step ==
    /\ DOMAIN snapshots \subseteq DOMAIN snapshots'
    /\ \A tg \in DOMAIN snapshots : snapshots'[tg] = snapshots[tg]
    /\ Cardinality(DOMAIN snapshots') <= Cardinality(DOMAIN snapshots) + 1
    /\ (pc' \in {"build", "done"} /\ file' # file)
          => DOMAIN snapshots' # DOMAIN snapshots

C25_AppendOnly == [][C25_Step]_vars

C25_Witness ==
    /\ pc = "done"
    /\ DOMAIN snapshots = { Tag(0, ""), Tag(1, "llmrepair"), Tag(2, "docs"),
                            Tag(2, "docs_revert") }
    /\ snapshots[Tag(1, "llmrepair")] = snapshots[Tag(2, "docs_revert")]

\* C26: every write of the working file by the loop, trial writes of
\* deterministic candidates in both variants included, is followed by an
\* explicit modification-time refresh before the next toolchain invocation:
\* no toolchain call is about to run on a trial write or on a revert of one
\* that was not refreshed.
C26_RefreshBeforeToolchain ==
    ( \/ pc \in {"build", "doc_rebuild", "diagnose", "trial_diag"}
      \/ gnode \in {"diagnose", "det_diag", "build"} )
        => stale \notin {"trial", "revert"}

\* C27: diagnostics returns at most one diagnostic per call: the empty list
\* exactly when the check exits 0 with blank error output; exactly one
\* diagnostic of severity error, carrying the error text (or the standard
\* output when the error stream is blank) without surrounding white space,
\* whenever the exit code is nonzero; and exactly one diagnostic of severity
\* warning carrying the error text when the exit code is 0 with non-blank
\* error output.
Blank(t) == \A i \in DOMAIN t : IsSpace(t[i])

C27_AtMostOneDiagnostic ==
    dg_pc = "returned" =>
        LET r  == dg_in
            ds == dg_out
        IN  /\ Len(ds) <= 1
            /\ (ds = <<>>) <=> (r.rc = 0 /\ Blank(r.err))
            /\ r.rc # 0 =>
                  /\ Len(ds) = 1
                  /\ ds[1].severity = "error"
                  /\ ds[1].text = IF Blank(r.err) THEN strip(r.out)
                                  ELSE strip(r.err)
            /\ (r.rc = 0 /\ ~Blank(r.err)) =>
                  /\ Len(ds) = 1
                  /\ ds[1].severity = "warning"
                  /\ ds[1].text = strip(r.err)

C27_Witness ==
    /\ dg_pc = "returned"
    /\ dg_in.rc = 0
    /\ dg_in.err = <<"w", NL, "e">>
    /\ dg_out = <<Message("warning", <<"w", NL, "e">>)>>

\* C28: at the start of every iteration and at every return of loop the
\* content of the working file equals the content of the most recently saved
\* snapshot of the session.
C28_FileIsLastSnapshot ==
    pc \in {"build", "done"}
        => /\ lastSnap \in DOMAIN snapshots
           /\ snapshots[lastSnap] = file

\* C29: when an oracle call of loop (repair, extend or document) returns
\* absent, loop returns in that iteration with the content of the working
\* file and the set of snapshots as they were before the call; in the graph
\* variant the apply node leaves the working file and the state (status
\* included) unchanged when the patch is absent or blank.
C29_Step ==
    /\ ( /\ (nExtend' # nExtend \/ nDoc' # nDoc \/ nRepair' # nRepair)
         /\ oracleRet' = None )
          => /\ pc' = "done"
             /\ it' = it
             /\ file' = file
             /\ snapshots' = snapshots
    /\ (gnode = "apply" /\ (s.patch.none \/ Blank(s.patch.text)))
          => (file' = file /\ s' = s)

C29_AbsentLeavesNoTrace == [][C29_Step]_vars

C29_Witness ==
    /\ pc = "done"
    /\ ret
    /\ client
    /\ it = 1
    /\ max_iters = 2
    /\ nExtend = 1
    /\ nDoc = 0
    /\ oracleRet = None
    /\ DOMAIN snapshots = { Tag(0, "") }
    /\ file = src0

===========================================================================
